---- MODULE Spec2Model ----
(***************************************************************************)
(* A model of src/main.py: the backtracking scanner (ParserBase), the      *)
(* markup grammar built on it (HTMLParser and its three decorators), the   *)
(* offset -> line.column translator (HTMLEditor.PositionConverter) and the *)
(* background re-highlighting loop (HTMLEditor.AutoParser) working against *)
(* a tk.Text surface that the foreground thread edits.                     *)
(*                                                                         *)
(* A text is a sequence of one-character strings.  A parser object is a    *)
(* record `self`: the fields text, whitespaces, pos and result are the     *)
(* attributes _text, _whitespaces, _pos and _result; exc says that a       *)
(* ParserError is propagating, ret and flag hold the value the last call   *)
(* returned (a string or None, resp. a boolean).  Two history fields are   *)
(* not program state: log records every decorator invocation (the object   *)
(* at entry, after the wrapped function, and after the decorator), and     *)
(* stalled is set when an iteration of one of the grammar's while loops    *)
(* goes round again without having advanced the cursor.                    *)
(*                                                                         *)
(* A method is an operator from the object to the object.  Every operator  *)
(* is the identity on an object in which an exception is propagating, so   *)
(* that g(f(self)) is "f(); g()".  A decorator is an operator of the       *)
(* object at entry and the object the wrapped function left behind.        *)
(***************************************************************************)
EXTENDS Integers, Sequences, FiniteSets, TLC

VARIABLES
    parser,      \* the HTMLParser object: under construction, or parsed_html of a tick
    pc,          \* the statement of _parse / __try_parse_tag_blocks to run next
    mark,        \* history: the cursor when the tag-block loop was last tested
    buf,         \* the text surface's content (without Tk's final newline)
    marks,       \* the text surface's tags: tag name -> offsets of the tagged characters
    modified,    \* the text surface's "modified" flag (edit_modified)
    lock,        \* HTMLEditor._lock: "free" or the thread holding it
    fg,          \* the foreground thread: its position and the text being set
    bg,          \* the background thread AutoParser.run: its position and locals
    edits,       \* calls of set_text / insert the foreground may still make
    conv         \* a PositionConverter object and a call of its convert

vars == <<parser, pc, mark, buf, marks, modified, lock, fg, bg, edits, conv>>
edvars == <<buf, marks, modified, lock, fg, bg, edits>>

(***************************************************************************)
(* Bounds of the model.                                                    *)
(***************************************************************************)
MaxLen == 4          \* every text over Alphabet up to this length is parsed
MaxEdits == 2        \* foreground edits in one run of the editor
MaxText == 5         \* every text of letters and newlines up to this length is converted

Min(a, b) == IF a < b THEN a ELSE b

(***************************************************************************)
(* ParserElement, ParserError, None                                        *)
(***************************************************************************)
ParserElement(l, r, type) == [l |-> l, r |-> r, type |-> type]

None == <<"None">>

Truthy(x) == x # None /\ x # <<>>

LowerMap ==
    [c \in {"A", "B", "C", "D", "E", "F", "G", "H", "I", "J", "K", "L", "M",
            "N", "O", "P", "Q", "R", "S", "T", "U", "V", "W", "X", "Y", "Z"} |->
        CASE c = "A" -> "a" [] c = "B" -> "b" [] c = "C" -> "c" [] c = "D" -> "d"
          [] c = "E" -> "e" [] c = "F" -> "f" [] c = "G" -> "g" [] c = "H" -> "h"
          [] c = "I" -> "i" [] c = "J" -> "j" [] c = "K" -> "k" [] c = "L" -> "l"
          [] c = "M" -> "m" [] c = "N" -> "n" [] c = "O" -> "o" [] c = "P" -> "p"
          [] c = "Q" -> "q" [] c = "R" -> "r" [] c = "S" -> "s" [] c = "T" -> "t"
          [] c = "U" -> "u" [] c = "V" -> "v" [] c = "W" -> "w" [] c = "X" -> "x"
          [] c = "Y" -> "y" [] c = "Z" -> "z"]

lower(s) == [i \in 1..Len(s) |-> IF s[i] \in DOMAIN LowerMap THEN LowerMap[s[i]] ELSE s[i]]

\* text[a:b] of Python: clipped at the end of the text
Slice(t, a, b) == SubSeq(t, a + 1, Min(b, Len(t)))

(***************************************************************************)
(* ParserBase                                                              *)
(***************************************************************************)
ParserBase(text, whitespaces) ==
    [text |-> text, whitespaces |-> whitespaces, pos |-> 0, result |-> <<>>,
     exc |-> FALSE, ret |-> None, flag |-> FALSE, stalled |-> FALSE, log |-> <<>>]

Halted(self) == self.exc \/ self.stalled

Raise(self) == [self EXCEPT !.exc = TRUE]

Stall(self) == [self EXCEPT !.stalled = TRUE]

_is_end(self) == self.pos >= Len(self.text)

_match_single(self, prefix, is_impotant_register) ==
    LET A == Slice(self.text, self.pos, self.pos + Len(prefix))
        B == prefix
    IN  IF is_impotant_register THEN A = B ELSE lower(A) = lower(B)

_match(self, prefixes, is_impotant_register) ==
    \E i \in 1..Len(prefixes) : _match_single(self, prefixes[i], is_impotant_register)

_skip_len(self, cnt) ==
    IF Halted(self) THEN self
    ELSE IF self.pos + cnt > Len(self.text) THEN Raise(self)
    ELSE [self EXCEPT !.pos = @ + cnt]

_skip_match(self, prefix, is_impotant_register) ==
    IF Halted(self) THEN self
    ELSE IF _match(self, <<prefix>>, is_impotant_register)
         THEN _skip_len(self, Len(prefix))
         ELSE Raise(self)

_char(self) ==
    IF self.pos < Len(self.text) THEN self.text[self.pos + 1] ELSE "None"

_next(self) ==
    IF Halted(self) THEN self
    ELSE IF self.pos < Len(self.text)
         THEN [self EXCEPT !.pos = @ + 1, !.ret = <<_char(self)>>]
         ELSE Raise(self)

_can_skip_whitespace(self) == (~_is_end(self)) /\ (_char(self) \in self.whitespaces)

RECURSIVE _try_skip_whitespaces(_)
_try_skip_whitespaces(self) ==
    IF Halted(self) THEN self
    ELSE IF _can_skip_whitespace(self) THEN _try_skip_whitespaces(_next(self))
    ELSE self

_skip_whitespaces(self) ==
    IF Halted(self) THEN self
    ELSE IF ~_can_skip_whitespace(self) THEN Raise(self)
    ELSE _try_skip_whitespaces(self)

\* the predicate _end_filter(end) returns, applied to a character
_end_filter(end, character) == ~(character \in end)

\* the loop of _parse_text; text_filter is _end_filter(end) at every call
RECURSIVE _parse_text_while(_, _, _)
_parse_text_while(self, end, result) ==
    IF Halted(self) THEN self
    ELSE IF ~_is_end(self) /\ _end_filter(end, _char(self))
         THEN _parse_text_while(_next(self), end, result \o <<_char(self)>>)
         ELSE [self EXCEPT !.ret = result]

_parse_text(self, end, min_one) ==
    IF Halted(self) THEN self
    ELSE IF min_one
         THEN IF _is_end(self) \/ ~_end_filter(end, _char(self))
              THEN Raise(self)
              ELSE _parse_text_while(_next(self), end, <<_char(self)>>)
         ELSE _parse_text_while(self, end, <<>>)

(***************************************************************************)
(* The decorators.  `self` is the object when the wrapper is entered, `r`  *)
(* the object when the wrapped function returned or raised.                *)
(***************************************************************************)
LogEntry(w, type, self, r, out) ==
    [w |-> w, type |-> type,
     pos0 |-> self.pos, res0 |-> self.result,
     exc1 |-> r.exc, pos1 |-> r.pos, res1 |-> r.result,
     exc2 |-> out.exc, pos2 |-> out.pos, res2 |-> out.result, flag2 |-> out.flag]

Logged(w, type, self, r, out) ==
    [out EXCEPT !.log = Append(r.log, LogEntry(w, type, self, r, out))]

\* parser_result_updater, had it taken the end of the span as inclusive
parser_result_updater_inclusive(element_type, self, r) ==
    IF Halted(self) \/ r.stalled THEN r
    ELSE Logged("updater", element_type, self, r,
            IF r.exc THEN r
            ELSE IF self.pos < r.pos
                 THEN [r EXCEPT !.result =
                          Append(@, ParserElement(self.pos, r.pos + 1, element_type))]
                 ELSE r)

\* parser_result_updater without the test of line 164
parser_result_updater_untested(element_type, self, r) ==
    IF Halted(self) \/ r.stalled THEN r
    ELSE Logged("updater", element_type, self, r,
            IF r.exc THEN r
            ELSE [r EXCEPT !.result =
                     Append(@, ParserElement(self.pos, r.pos, element_type))])

parser_result_updater(element_type, self, r) ==
    IF Halted(self) \/ r.stalled THEN r
    ELSE Logged("updater", element_type, self, r,
            IF r.exc THEN r
            ELSE IF self.pos < r.pos
                 THEN [r EXCEPT !.result =
                          Append(@, ParserElement(self.pos, r.pos, element_type))]
                 ELSE r)

\* parser_error_handler, had it raised the ParserError again after recording it
parser_error_handler_reraise(self, r) ==
    IF Halted(self) \/ r.stalled THEN r
    ELSE Logged("handler", "error", self, r,
            IF r.exc
            THEN [r EXCEPT !.result = Append(@, ParserElement(self.pos, r.pos, "error"))]
            ELSE r)

\* parser_error_handler, had it put the cursor back where the rule started
parser_error_handler_rollback(self, r) ==
    IF Halted(self) \/ r.stalled THEN r
    ELSE Logged("handler", "error", self, r,
            IF r.exc
            THEN [r EXCEPT !.exc = FALSE, !.ret = None, !.pos = self.pos,
                           !.result = Append(@, ParserElement(self.pos, r.pos, "error"))]
            ELSE r)

parser_error_handler(self, r) ==
    IF Halted(self) \/ r.stalled THEN r
    ELSE Logged("handler", "error", self, r,
            IF r.exc
            THEN [r EXCEPT !.exc = FALSE, !.ret = None,
                           !.result = Append(@, ParserElement(self.pos, r.pos, "error"))]
            ELSE r)

\* parser_restorer, had it restored the cursor and kept the spans
parser_restorer_pos_only(self, r) ==
    IF Halted(self) \/ r.stalled THEN r
    ELSE Logged("restorer", "none", self, r,
            IF r.exc
            THEN [r EXCEPT !.exc = FALSE, !.pos = self.pos, !.flag = FALSE]
            ELSE [r EXCEPT !.flag = TRUE])

parser_restorer(self, r) ==
    IF Halted(self) \/ r.stalled THEN r
    ELSE Logged("restorer", "none", self, r,
            IF r.exc
            THEN [r EXCEPT !.exc = FALSE, !.pos = self.pos, !.result = self.result,
                           !.flag = FALSE]
            ELSE [r EXCEPT !.flag = TRUE])

(***************************************************************************)
(* HTMLParser.  func__X is the function X as written, X is the function    *)
(* with its decorators applied.                                            *)
(***************************************************************************)
WHITESPACES == {" ", "\n", "\t"}

NameEnd == {"!", "/", "<", ">", "\"", "="} \cup WHITESPACES

__skip_name(self) == _parse_text(self, NameEnd, TRUE)

\* `return value` at the end of a function that did not raise
Returns(s, value) == IF Halted(s) THEN s ELSE [s EXCEPT !.ret = value]

\* lines 202-203; s2 is the object after the text of the quoted value
skip_value_closing_quote(s2) ==
    Returns(_skip_match(s2, <<"\"">>, FALSE), <<"\"">> \o s2.ret \o <<"\"">>)

__skip_value(self) ==
    IF Halted(self) THEN self
    ELSE IF _match(self, << <<"\"">> >>, FALSE)
         THEN skip_value_closing_quote(
                  _parse_text(_skip_match(self, <<"\"">>, FALSE), {"\""}, FALSE))
         ELSE _parse_text(self, NameEnd, TRUE)

func__try_parse_doctype(self) ==
    _skip_match(
        _parse_text(
            _skip_whitespaces(
                _skip_match(self, <<"<", "!", "d", "o", "c", "t", "y", "p", "e">>, FALSE)),
            {">"}, TRUE),
        <<">">>, FALSE)

\* __try_parse_doctype, had it been decorated with parser_error_handler
__try_parse_doctype_tolerant(self) ==
    parser_error_handler(self,
        parser_result_updater("doctype", self, func__try_parse_doctype(self)))


__try_parse_doctype(self) ==
    parser_restorer(self,
        parser_result_updater("doctype", self, func__try_parse_doctype(self)))

__parse_tag_name(self) ==
    parser_result_updater("tag_name", self, __skip_name(self))

__parse_tag_param_name(self) ==
    parser_result_updater("tag_param_name", self, __skip_name(self))

__parse_tag_param_value(self) ==
    parser_result_updater("tag_param_value", self, __skip_value(self))

\* lines 302-305; s3 is the object after __parse_tag_name, close_tag_name its value
close_tag_after_name(s3, open_tag_name) ==
    IF Halted(s3) THEN s3
    ELSE IF Truthy(open_tag_name) /\ open_tag_name # s3.ret
         THEN Raise(s3)
         ELSE _skip_match(_try_skip_whitespaces(s3), <<">">>, FALSE)

__parse_close_tag(self, open_tag_name) ==
    close_tag_after_name(
        __parse_tag_name(_try_skip_whitespaces(_skip_match(self, <<"<", "/">>, FALSE))),
        open_tag_name)

__try_parse_close_tag2(self, open_tag_name) ==
    parser_restorer(self, __parse_close_tag(self, open_tag_name))

__try_parse_close_tag(self, open_tag_name) ==
    parser_error_handler(self, __parse_close_tag(self, open_tag_name))

\* lines 235-236, had the run of < been left where it is
skip_open_brackets_left(self) == self

\* while not self._is_end() and self._char() == '<': self._next()
RECURSIVE skip_open_brackets(_)
skip_open_brackets(self) ==
    IF Halted(self) THEN self
    ELSE IF ~_is_end(self) /\ _char(self) = "<" THEN skip_open_brackets(_next(self))
    ELSE self

\* `self._pos = lpos` after the lookahead returned True.  The log keeps the
\* object from which the lookahead started (s1) and the one it returned (s2).
Rewind(s1, s2, lpos) ==
    Logged("rewind", "none", s1, s2, [s2 EXCEPT !.pos = lpos])

\* The loop of __parse_script: self is the object at the top of the
\* iteration, s1 after _parse_text (lpos is s1.pos), s2 after the lookahead,
\* s3 after the run of < was skipped.
RECURSIVE func__parse_script(_)
script_again(self, s3) ==
    IF ~Halted(s3) /\ ~_is_end(s3) /\ s3.pos <= self.pos THEN Stall(s3)
    ELSE func__parse_script(s3)

script_break(self, s1, s2) ==
    IF Halted(s2) THEN s2
    ELSE IF s2.flag THEN Rewind(s1, s2, s1.pos)
    ELSE script_again(self, skip_open_brackets(s2))

script_lookahead(self, s1) ==
    script_break(self, s1, __try_parse_close_tag2(s1, <<"s", "c", "r", "i", "p", "t">>))

func__parse_script(self) ==
    IF Halted(self) \/ _is_end(self) THEN self
    ELSE script_lookahead(self, _parse_text(self, {"<"}, FALSE))

__parse_script(self) ==
    parser_result_updater("script", self, func__parse_script(self))

\* The loop of __parse_style, as that of __parse_script.
RECURSIVE func__parse_style(_)
style_again(self, s3) ==
    IF ~Halted(s3) /\ ~_is_end(s3) /\ s3.pos <= self.pos THEN Stall(s3)
    ELSE func__parse_style(s3)

style_break(self, s1, s2) ==
    IF Halted(s2) THEN s2
    ELSE IF s2.flag THEN Rewind(s1, s2, s1.pos)
    ELSE style_again(self, skip_open_brackets(s2))

style_lookahead(self, s1) ==
    style_break(self, s1, __try_parse_close_tag2(s1, <<"s", "t", "y", "l", "e">>))

func__parse_style(self) ==
    IF Halted(self) \/ _is_end(self) THEN self
    ELSE style_lookahead(self, _parse_text(self, {"<"}, FALSE))

__parse_style(self) ==
    parser_result_updater("style", self, func__parse_style(self))

\* while not self._match('-->'): self._next()
RECURSIVE comment_scan(_)
comment_scan_again(self, s1) ==
    IF ~Halted(s1) /\ ~_match(s1, << <<"-", "-", ">">> >>, FALSE) /\ s1.pos <= self.pos
    THEN Stall(s1)
    ELSE comment_scan(s1)

comment_scan(self) ==
    IF Halted(self) THEN self
    ELSE IF ~_match(self, << <<"-", "-", ">">> >>, FALSE)
         THEN comment_scan_again(self, _next(self))
         ELSE self

func__try_parse_comment(self) ==
    _skip_match(
        _try_skip_whitespaces(
            comment_scan(
                _try_skip_whitespaces(_skip_match(self, <<"<", "!", "-", "-">>, FALSE)))),
        <<"-", "-", ">">>, FALSE)

__try_parse_comment(self) ==
    parser_restorer(self,
        parser_result_updater("comment", self, func__try_parse_comment(self)))

__try_parse_user_text(self) ==
    parser_result_updater("text", self, _parse_text(self, {"<"}, FALSE))

\* lines 266-270; s2 is the object after the name and the whitespace
tag_param_value_part(s2) ==
    IF Halted(s2) THEN s2
    ELSE IF _match(s2, << <<"=">> >>, FALSE)
         THEN _try_skip_whitespaces(
                  __parse_tag_param_value(
                      _try_skip_whitespaces(_skip_match(s2, <<"=">>, FALSE))))
         ELSE s2

__try_parse_tag_param(self) ==
    tag_param_value_part(_try_skip_whitespaces(__parse_tag_param_name(self)))

\* while not self._is_end() and not self._match(['/>', '>']): ...
tag_params_test(self) ==
    ~_is_end(self) /\ ~_match(self, << <<"/", ">">>, <<">">> >>, FALSE)

RECURSIVE tag_params_while(_)
tag_params_again(self, s2) ==
    IF ~Halted(s2) /\ tag_params_test(s2) /\ s2.pos <= self.pos THEN Stall(s2)
    ELSE tag_params_while(s2)

tag_params_while(self) ==
    IF Halted(self) THEN self
    ELSE IF tag_params_test(self)
         THEN tag_params_again(self,
                  _try_skip_whitespaces(__try_parse_tag_param(self)))
         ELSE self

func__try_parse_tag_params(self) == tag_params_while(_try_skip_whitespaces(self))

__try_parse_tag_params(self) ==
    parser_error_handler(self, func__try_parse_tag_params(self))

func__try_parse_open_and_close_tag(self) ==
    _skip_match(
        __try_parse_tag_params(
            _try_skip_whitespaces(
                __parse_tag_name(
                    _try_skip_whitespaces(_skip_match(self, <<"<">>, FALSE))))),
        <<"/", ">">>, FALSE)

__try_parse_open_and_close_tag(self) ==
    parser_restorer(self, func__try_parse_open_and_close_tag(self))

\* lines 293-296; s3 is the object after __parse_tag_name, name its value
open_tag_after_name(s3) ==
    Returns(
        _skip_match(__try_parse_tag_params(_try_skip_whitespaces(s3)), <<">">>, FALSE),
        s3.ret)

func__try_parse_open_tag(self) ==
    open_tag_after_name(
        __parse_tag_name(_try_skip_whitespaces(_skip_match(self, <<"<">>, FALSE))))

__try_parse_open_tag(self) ==
    parser_error_handler(self, func__try_parse_open_tag(self))

\* lines 325-330, had a close tag of its name been demanded after every open tag
tag_block_close_demanded(s2) ==
    IF Halted(s2) THEN s2
    ELSE IF s2.ret \in {<<"s", "c", "r", "i", "p", "t">>, <<"s", "t", "y", "l", "e">>}
         THEN __try_parse_close_tag(
                  IF s2.ret = <<"s", "c", "r", "i", "p", "t">>
                  THEN __parse_script(s2)
                  ELSE __parse_style(s2),
                  s2.ret)
         ELSE IF s2.ret # None THEN __try_parse_close_tag(s2, s2.ret)
         ELSE s2

\* lines 325-330; s2 is the object after __try_parse_open_tag, tag_name its value
tag_block_after_open_tag(s2) ==
    IF Halted(s2) THEN s2
    ELSE IF s2.ret \in {<<"s", "c", "r", "i", "p", "t">>, <<"s", "t", "y", "l", "e">>}
         THEN __try_parse_close_tag(
                  IF s2.ret = <<"s", "c", "r", "i", "p", "t">>
                  THEN __parse_script(s2)
                  ELSE __parse_style(s2),
                  s2.ret)
         ELSE s2

\* lines 321-324 without the return of line 322
tag_block_without_return(s1) ==
    IF Halted(s1) THEN s1
    ELSE tag_block_after_open_tag(__try_parse_open_tag(s1))

\* lines 321-324; s1 is the object after __try_parse_open_and_close_tag
tag_block_after_open_and_close_tag(s1) ==
    IF Halted(s1) \/ s1.flag THEN s1
    ELSE tag_block_after_open_tag(__try_parse_open_tag(s1))

func__parse_tag_block(self) ==
    IF Halted(self) THEN self
    ELSE IF _match(self, << <<"<", "/">> >>, FALSE)
         THEN __try_parse_close_tag(self, None)
         ELSE tag_block_after_open_and_close_tag(__try_parse_open_and_close_tag(self))

__parse_tag_block(self) ==
    parser_error_handler(self, func__parse_tag_block(self))

\* while not self._is_end() and self._char() == '<'
tag_blocks_test(self) == ~_is_end(self) /\ _char(self) = "<"

\* one iteration of the loop of __try_parse_tag_blocks
tag_blocks_body(self) ==
    __try_parse_user_text(
        _try_skip_whitespaces(__parse_tag_block(__try_parse_comment(self))))

RECURSIVE __try_parse_tag_blocks(_)
tag_blocks_again(self, s1) ==
    IF ~Halted(s1) /\ tag_blocks_test(s1) /\ s1.pos <= self.pos THEN Stall(s1)
    ELSE __try_parse_tag_blocks(s1)

__try_parse_tag_blocks(self) ==
    IF Halted(self) THEN self
    ELSE IF tag_blocks_test(self) THEN tag_blocks_again(self, tag_blocks_body(self))
    ELSE self

_parse(self) ==
    __try_parse_tag_blocks(
        __try_parse_user_text(
            _try_skip_whitespaces(
                __try_parse_doctype(
                    _try_skip_whitespaces([self EXCEPT !.result = <<>>])))))

\* HTMLParser(html_text): ParserBase.__init__ sets the fields and calls _parse
HTMLParser(html_text) == _parse(ParserBase(html_text, WHITESPACES))

(***************************************************************************)
(* The texts that are parsed: every text over Alphabet of length at most   *)
(* MaxLen, and the fixed documents below.                                  *)
(***************************************************************************)
Alphabet == {"<", ">", "/", "a", " ", "=", "\"", "!", "-"}

ShortTexts == UNION {[1..n -> Alphabet] : n \in 0..MaxLen}

\* <div id="x"><p>hi</p></div>
T_div ==
    <<"<", "d", "i", "v", " ", "i", "d", "=", "\"", "x", "\"", ">", "<", "p", ">",
      "h", "i", "<", "/", "p", ">", "<", "/", "d", "i", "v", ">">>

\* <script>a</script>
T_script ==
    <<"<", "s", "c", "r", "i", "p", "t", ">", "a", "<", "/", "s", "c", "r", "i", "p",
      "t", ">">>

\* <script>a<b</script>
T_script_lt ==
    <<"<", "s", "c", "r", "i", "p", "t", ">", "a", "<", "b", "<", "/", "s", "c", "r",
      "i", "p", "t", ">">>

\* <style><</style>
T_style ==
    <<"<", "s", "t", "y", "l", "e", ">", "<", "<", "/", "s", "t", "y", "l", "e", ">">>

\* <div><span>oops
T_oops ==
    <<"<", "d", "i", "v", ">", "<", "s", "p", "a", "n", ">", "o", "o", "p", "s">>

\* <!-- <div> -->
T_comment ==
    <<"<", "!", "-", "-", " ", "<", "d", "i", "v", ">", " ", "-", "-", ">">>

\* <!--a--><!--b-->
T_comments ==
    <<"<", "!", "-", "-", "a", "-", "-", ">", "<", "!", "-", "-", "b", "-", "-", ">">>

\* <img src="a.png"/>
T_img ==
    <<"<", "i", "m", "g", " ", "s", "r", "c", "=", "\"", "a", ".", "p", "n", "g", "\"",
      "/", ">">>

\* <!DOCTYPE html>, a newline, <a>
T_doctype ==
    <<"<", "!", "D", "O", "C", "T", "Y", "P", "E", " ", "h", "t", "m", "l", ">", "\n",
      "<", "a", ">">>

\* <!doctypex>
T_doctype_bad ==
    <<"<", "!", "d", "o", "c", "t", "y", "p", "e", "x", ">">>

\* <a b="
T_attr_bad ==
    <<"<", "a", " ", "b", "=", "\"">>

\* <a =><b/>
T_spec ==
    <<"<", "a", " ", "=", ">", "<", "b", "/", ">">>

\* x </a >, a tab, </ b
T_close ==
    <<"x", " ", "<", "/", "a", " ", ">", "\t", "<", "/", " ", "b">>

Documents ==
    {T_div, T_script, T_script_lt, T_style, T_oops, T_comment, T_comments, T_img,
     T_doctype, T_doctype_bad, T_attr_bad, T_spec, T_close}

Texts == ShortTexts \cup Documents

(***************************************************************************)
(* The text surface: a tk.Text widget.  Its content always ends with a     *)
(* newline of its own, which is not part of buf.  Offsets count characters *)
(* from 0; an index is the pair <<line, column>> that Tk writes as         *)
(* "line.column", or END.  A tag is the set of offsets of the characters   *)
(* that carry it.                                                          *)
(***************************************************************************)
END == <<"end">>

Widget(content) == content \o <<"\n">>

\* the tags __configure_tags creates (lines 400-410)
Categories ==
    {"default", "tag_name", "tag_param_name", "tag_param_value", "doctype",
     "comment", "text", "script", "style", "error"}

\* tag_names() of a widget on which __configure_tags ran: Tk's own sel first
TagNames ==
    <<"sel", "default", "tag_name", "tag_param_name", "tag_param_value", "doctype",
      "comment", "text", "script", "style", "error">>

TagNameSet == {TagNames[i] : i \in 1..Len(TagNames)}

LineCount(w) == Cardinality({i \in 1..Len(w) : w[i] = "\n"})

\* the line of the character at offset o
LineOf(w, o) == 1 + Cardinality({i \in 1..o : w[i] = "\n"})

\* the offset at which a line starts
LineStart(w, line) ==
    IF line = 1 THEN 0
    ELSE CHOOSE o \in 1..Len(w) : w[o] = "\n" /\ LineOf(w, o) = line

\* Tk resolves an index: a line past the last one is the end of the text, a
\* column past the end of its line is the line's newline
TkOffset(w, index) ==
    IF index = END THEN Len(w)
    ELSE IF index[1] > LineCount(w) THEN Len(w)
    ELSE LineStart(w, index[1])
           + Min(index[2], LineStart(w, index[1] + 1) - LineStart(w, index[1]) - 1)

\* Tk writes an offset as line.column
TkIndex(w, o) == <<LineOf(w, o), o - LineStart(w, LineOf(w, o))>>

\* tag_add(tag, l, r) and tag_remove(tag, l, r) on the characters of one tag
tag_add(w, tagged, l, r) == tagged \cup (TkOffset(w, l) .. (TkOffset(w, r) - 1))

tag_remove(w, tagged, l, r) == tagged \ (TkOffset(w, l) .. (TkOffset(w, r) - 1))

\* tag_ranges(tag): the maximal runs of tagged characters; lines 440-442 and
\* 457-459 make the set of (str(start), str(end)) of it
tag_ranges(w, tagged) ==
    {<<TkIndex(w, a), TkIndex(w, b)>> : <<a, b>> \in
        {x \in tagged \X (1..Len(w)) :
            /\ x[1] < x[2]
            /\ (x[1] - 1) \notin tagged
            /\ x[2] \notin tagged
            /\ \A k \in x[1]..(x[2] - 1) : k \in tagged}}

\* delete(1.0, END): the newline at the end stays, without its tags
NoMarks == [n \in TagNameSet |-> {}]

\* insert(index, chars): the characters from the index on move up; the new
\* ones get the tags that the characters on both sides carry.  Nothing is
\* inserted after the newline at the end.
InsertAt(content, index) == Min(TkOffset(Widget(content), index), Len(content))

InsertText(content, i, chars) ==
    SubSeq(content, 1, i) \o chars \o SubSeq(content, i + 1, Len(content))

InsertMarks(tagged, i, n) ==
    {o \in tagged : o < i} \cup {o + n : o \in {x \in tagged : x >= i}}
        \cup (IF (i - 1) \in tagged /\ i \in tagged THEN i..(i + n - 1) ELSE {})

\* edit_modified after a call that edits: set when the call changed the text;
\* a call that changed nothing may or may not set it
Modifies(changed, was) == IF changed THEN {TRUE} ELSE {was, TRUE}

(***************************************************************************)
(* HTMLEditor.PositionConverter                                            *)
(***************************************************************************)
\* text.index('\n', start): the first newline from start on, -1 for ValueError
index_newline(text, start) ==
    IF \E i \in start..(Len(text) - 1) : text[i + 1] = "\n"
    THEN CHOOSE i \in start..(Len(text) - 1) :
             text[i + 1] = "\n" /\ \A j \in start..(i - 1) : text[j + 1] # "\n"
    ELSE -1

\* the loop of __init__: new_pos is the newline found, __n_sizes is returned
RECURSIVE n_sizes_while(_, _, _)
n_sizes_next(text, last_pos, n_sizes, new_pos) ==
    IF new_pos = -1 THEN n_sizes
    ELSE n_sizes_while(text, new_pos, Append(n_sizes, new_pos - last_pos))

n_sizes_while(text, last_pos, n_sizes) ==
    n_sizes_next(text, last_pos, n_sizes, index_newline(text, last_pos + 1))

PositionConverter(text) == n_sizes_while(text, -1, <<>>)

RECURSIVE convert_for(_, _, _, _)
convert_for(sizes, k, line, index) ==
    IF k <= Len(sizes) /\ sizes[k] <= index
    THEN convert_for(sizes, k + 1, line + 1, index - sizes[k])
    ELSE <<line, index>>

\* convert with a line taken for passed only when the index is beyond it
RECURSIVE convert_for_beyond(_, _, _, _)
convert_for_beyond(sizes, k, line, index) ==
    IF k <= Len(sizes) /\ sizes[k] < index
    THEN convert_for_beyond(sizes, k + 1, line + 1, index - sizes[k])
    ELSE <<line, index>>

convert_beyond(pos_converter, index) == convert_for_beyond(pos_converter, 1, 1, index)

\* the string 'line.index' of line 398, as the pair Tk reads it as
convert(pos_converter, index) == convert_for(pos_converter, 1, 1, index)

(***************************************************************************)
(* HTMLEditor._update_colors, the parts that touch no widget but the       *)
(* temporary one.                                                          *)
(***************************************************************************)
\* lines 448-451: the tags of _temp_editor after the first k elements of info
RECURSIVE temp_tags(_, _, _, _)
temp_tags(text, info, pos_converter, k) ==
    IF k = 0 THEN NoMarks
    ELSE [temp_tags(text, info, pos_converter, k - 1) EXCEPT ![info[k].type] =
             tag_add(Widget(text), @, convert(pos_converter, info[k].l),
                     convert(pos_converter, info[k].r))]

\* lines 453-459: the ranges of every tag of _temp_editor
temp_ranges(text, temp) ==
    [n \in TagNameSet |-> tag_ranges(Widget(text), temp[n])]

\* lines 444-459
tags_new(text, info, pos_converter) ==
    temp_ranges(text, temp_tags(text, info, pos_converter, Len(info)))

\* lines 461-472
keys(tags, new) == DOMAIN tags \cup DOMAIN new

\* tags_to_add, had every range of the new mapping been added again
tags_to_add_all(tags, new) ==
    [key \in {k \in keys(tags, new) : k \notin DOMAIN tags \/ k \in DOMAIN new} |->
        new[key]]

tags_to_add(tags, new) ==
    [key \in {k \in keys(tags, new) : k \notin DOMAIN tags \/ k \in DOMAIN new} |->
        IF key \notin DOMAIN tags THEN new[key] ELSE new[key] \ tags[key]]

\* tags_to_remove, had the difference been taken the other way round
tags_to_remove_swapped(tags, new) ==
    [key \in {k \in keys(tags, new) : k \in DOMAIN tags} |->
        IF key \notin DOMAIN new THEN tags[key] ELSE new[key] \ tags[key]]

tags_to_remove(tags, new) ==
    [key \in {k \in keys(tags, new) : k \in DOMAIN tags} |->
        IF key \notin DOMAIN new THEN tags[key] ELSE tags[key] \ new[key]]

\* the tag_remove / tag_add calls a dictionary of ranges still asks for
Pending(d) == {key \in DOMAIN d : d[key] # {}}

(***************************************************************************)
(* The editor after HTMLEditor.__init__ (lines 412-423): an empty surface, *)
(* the lock free, the background thread about to start its loop.           *)
(***************************************************************************)
NoTags == [n \in {} |-> {}]

FgIdle == [pc |-> "idle", text |-> <<>>]

\* seen is history: the foreground's progress when get_text was called
BgStart ==
    [pc |-> "tick", result |-> FALSE, text |-> <<>>, seen |-> <<>>, names |-> <<>>,
     tags |-> NoTags, tags_new |-> NoTags, tags_to_remove |-> NoTags,
     tags_to_add |-> NoTags, key |-> "none"]

\* no PositionConverter has been constructed
ConvIdle == [pc |-> "idle", text |-> <<>>, n_sizes |-> <<>>, index |-> 0, position |-> <<>>]

EditorInit ==
    /\ buf = <<>>
    /\ marks = NoMarks
    /\ modified = FALSE
    /\ lock = "free"
    /\ fg = FgIdle
    /\ bg = BgStart
    /\ edits = MaxEdits
    /\ conv = ConvIdle

(***************************************************************************)
(* The parse, statement by statement: _parse (lines 339-348) and the loop  *)
(* of __try_parse_tag_blocks (lines 332-337).  pc is "raised" when a       *)
(* ParserError left _parse, "stalled" when a loop went round without       *)
(* advancing, "done" when _parse returned.                                 *)
(***************************************************************************)
After(s, next) ==
    IF s.stalled THEN "stalled" ELSE IF s.exc THEN "raised" ELSE next

Init ==
    /\ \E text \in Texts : parser = ParserBase(text, WHITESPACES)
    /\ pc = "parse"
    /\ mark = 0
    /\ EditorInit

\* one statement: the object it leaves behind and the statement that follows
Step(at, s, next) ==
    /\ pc = at
    /\ parser' = s
    /\ pc' = After(s, next)
    /\ mark' = IF next = "blocks" THEN s.pos ELSE mark
    /\ UNCHANGED <<edvars, conv>>

\* lines 340-341
ParseBegin ==
    Step("parse", _try_skip_whitespaces([parser EXCEPT !.result = <<>>]), "doctype")

\* line 343
ParseDoctype == Step("doctype", __try_parse_doctype(parser), "ws")

\* line 345
ParseSkipWs == Step("ws", _try_skip_whitespaces(parser), "text")

\* line 346
ParseUserText == Step("text", __try_parse_user_text(parser), "blocks")

\* line 333, the test holds
BlocksEnter ==
    /\ tag_blocks_test(parser)
    /\ Step("blocks", parser, "comment")

\* line 333, the test fails: __try_parse_tag_blocks and _parse return
BlocksExit ==
    /\ ~tag_blocks_test(parser)
    /\ Step("blocks", parser, "done")

\* line 334
BlocksComment == Step("comment", __try_parse_comment(parser), "tag_block")

\* line 335
BlocksTagBlock == Step("tag_block", __parse_tag_block(parser), "blocks_ws")

\* line 336
BlocksSkipWs == Step("blocks_ws", _try_skip_whitespaces(parser), "blocks_text")

\* line 337
BlocksUserText == Step("blocks_text", __try_parse_user_text(parser), "blocks")

Next ==
    \/ ParseBegin
    \/ ParseDoctype
    \/ ParseSkipWs
    \/ ParseUserText
    \/ BlocksEnter
    \/ BlocksExit
    \/ BlocksComment
    \/ BlocksTagBlock
    \/ BlocksSkipWs
    \/ BlocksUserText

Spec == Init /\ [][Next]_vars

(***************************************************************************)
(* The editor at work: the foreground thread calls set_text and insert,    *)
(* the background thread runs AutoParser.run.  A step is one call of the   *)
(* text surface, which serves one call at a time; what a thread does       *)
(* between two calls touches its own locals only.  The parse of a tick     *)
(* runs in one step, pc and mark stay as they are.                         *)
(***************************************************************************)
parsevars == <<parser, pc, mark>>

\* the texts set_text is called with: nothing, <a>, and a, a newline, <b>
E_empty == <<>>

E_a == <<"<", "a", ">">>

E_nl == <<"a", "\n", "<", "b", ">">>

EditTexts == {E_empty, E_a, E_nl}

\* the texts insert is called with
InsertTexts == {<<"b">>, <<"<">>, <<"\n">>}

EdInit ==
    /\ parser = ParserBase(<<>>, WHITESPACES)
    /\ pc = "done"
    /\ mark = 0
    /\ EditorInit

\* set_text, line 432: delete(1.0, END)
FgSetTextDelete ==
    /\ fg.pc = "idle"
    /\ edits > 0
    /\ \E text \in EditTexts : fg' = [pc |-> "insert", text |-> text]
    /\ buf' = <<>>
    /\ marks' = NoMarks
    /\ modified' \in Modifies(buf # <<>>, modified)
    /\ edits' = edits - 1
    /\ UNCHANGED <<parsevars, conv, lock, bg>>

\* set_text, line 433: insert(END, text)
FgSetTextInsert ==
    /\ fg.pc = "insert"
    /\ buf' = InsertText(buf, InsertAt(buf, END), fg.text)
    /\ marks' = [n \in TagNameSet |-> InsertMarks(marks[n], InsertAt(buf, END), Len(fg.text))]
    /\ modified' \in Modifies(fg.text # <<>>, modified)
    /\ fg' = FgIdle
    /\ UNCHANGED <<parsevars, conv, lock, bg, edits>>

\* insert, line 486: insert(INSERT, text), the insertion cursor being anywhere
FgInsert ==
    /\ fg.pc = "idle"
    /\ edits > 0
    /\ \E text \in InsertTexts, i \in 0..Len(buf) :
          /\ buf' = InsertText(buf, i, text)
          /\ marks' = [n \in TagNameSet |-> InsertMarks(marks[n], i, Len(text))]
    /\ modified' = TRUE
    /\ edits' = edits - 1
    /\ UNCHANGED <<parsevars, conv, lock, fg, bg>>

\* run, line 365, calls _reset_is_modified; line 489: with self._lock
BgAcquire ==
    /\ bg.pc = "tick"
    /\ lock = "free"
    /\ lock' = "bg"
    /\ bg' = [bg EXCEPT !.pc = "read"]
    /\ UNCHANGED <<parsevars, conv, buf, marks, modified, fg, edits>>

\* line 490: result = edit_modified()
BgReadModified ==
    /\ bg.pc = "read"
    /\ bg' = [bg EXCEPT !.pc = "reset", !.result = modified]
    /\ UNCHANGED <<parsevars, conv, buf, marks, modified, lock, fg, edits>>

\* line 491: edit_modified(False)
BgResetModified ==
    /\ bg.pc = "reset"
    /\ modified' = FALSE
    /\ bg' = [bg EXCEPT !.pc = "return"]
    /\ UNCHANGED <<parsevars, conv, buf, marks, lock, fg, edits>>

\* line 492, had the lock been kept beyond the return
BgReturnLocked ==
    /\ bg.pc = "return"
    /\ bg' = [bg EXCEPT !.pc = IF bg.result THEN "get_text" ELSE "sleep"]
    /\ UNCHANGED <<parsevars, conv, buf, marks, modified, lock, fg, edits>>

\* line 492: return result, the lock is released; line 365 tests the result
BgReturn ==
    /\ bg.pc = "return"
    /\ lock' = "free"
    /\ bg' = [bg EXCEPT !.pc = IF bg.result THEN "get_text" ELSE "sleep"]
    /\ UNCHANGED <<parsevars, conv, buf, marks, modified, fg, edits>>

\* line 366: text = get_text(), which is get(1.0, END)
BgGetText ==
    /\ bg.pc = "get_text"
    /\ bg' = [bg EXCEPT !.pc = "parse", !.text = Widget(buf), !.seen = <<edits, fg>>]
    /\ UNCHANGED <<parsevars, conv, buf, marks, modified, lock, fg, edits>>

\* line 368: parsed_html = HTMLParser(text); line 369 makes pos_converter of
\* the same text
BgParse ==
    /\ bg.pc = "parse"
    /\ parser' = HTMLParser(bg.text)
    /\ bg' = [bg EXCEPT !.pc = "tag_names"]
    /\ UNCHANGED <<pc, mark, conv, buf, marks, modified, lock, fg, edits>>

\* _update_colors, lines 436-438: tags = {}, tag_names()
BgTagNames ==
    /\ bg.pc = "tag_names"
    /\ bg' = [bg EXCEPT !.pc = "tag_ranges", !.names = TagNames, !.tags = NoTags]
    /\ UNCHANGED <<parsevars, conv, buf, marks, modified, lock, fg, edits>>

\* lines 439-442: tag_ranges of the next tag name
BgTagRanges ==
    /\ bg.pc = "tag_ranges"
    /\ bg' = [bg EXCEPT
                !.pc = IF Len(bg.names) = 1 THEN "diff" ELSE "tag_ranges",
                !.names = Tail(@),
                !.tags = (Head(bg.names) :> tag_ranges(Widget(buf), marks[Head(bg.names)])) @@ @]
    /\ UNCHANGED <<parsevars, conv, buf, marks, modified, lock, fg, edits>>

\* after line 472: the loop of line 474 or 478 that has a call to make
NextLoop(b) ==
    IF Pending(b.tags_to_remove) # {} THEN "remove"
    ELSE IF Pending(b.tags_to_add) # {} THEN "add"
    ELSE "sleep"

Apply(b) ==
    [b EXCEPT !.pc = NextLoop(b), !.key = IF NextLoop(b) = b.pc THEN b.key ELSE "none"]

\* lines 444-472, new being tags_new
Diffed(b, new) ==
    Apply([b EXCEPT !.tags_new = new,
                    !.tags_to_remove = tags_to_remove(b.tags, new),
                    !.tags_to_add = tags_to_add(b.tags, new)])

BgDiff ==
    /\ bg.pc = "diff"
    /\ bg' = Diffed(bg, tags_new(bg.text, parser.result, PositionConverter(bg.text)))
    /\ UNCHANGED <<parsevars, conv, buf, marks, modified, lock, fg, edits>>

\* The loops of lines 474-476 and 478-480 visit the keys and the ranges of a
\* key in an order of the dictionary's and the set's choosing, all the ranges
\* of one key before the next key.  tags_to_remove and tags_to_add hold what
\* is still to be visited, key the key being visited.
Visits(d, key) == IF bg.key \in Pending(d) THEN key = bg.key ELSE key \in Pending(d)

\* line 476: tag_remove(k, r[0], r[1])
BgTagRemove ==
    /\ bg.pc = "remove"
    /\ \E key \in Pending(bg.tags_to_remove) : \E r \in bg.tags_to_remove[key] :
          /\ Visits(bg.tags_to_remove, key)
          /\ marks' = [marks EXCEPT ![key] = tag_remove(Widget(buf), @, r[1], r[2])]
          /\ bg' = Apply([bg EXCEPT !.tags_to_remove[key] = @ \ {r}, !.key = key])
    /\ UNCHANGED <<parsevars, conv, buf, modified, lock, fg, edits>>

\* line 480: tag_add(k, r[0], r[1])
BgTagAdd ==
    /\ bg.pc = "add"
    /\ \E key \in Pending(bg.tags_to_add) : \E r \in bg.tags_to_add[key] :
          /\ Visits(bg.tags_to_add, key)
          /\ marks' = [marks EXCEPT ![key] = tag_add(Widget(buf), @, r[1], r[2])]
          /\ bg' = Apply([bg EXCEPT !.tags_to_add[key] = @ \ {r}, !.key = key])
    /\ UNCHANGED <<parsevars, conv, buf, modified, lock, fg, edits>>

\* line 373: time.sleep(0.2); the locals of the iteration are gone
BgSleep ==
    /\ bg.pc = "sleep"
    /\ bg' = BgStart
    /\ parser' = ParserBase(<<>>, WHITESPACES)
    /\ UNCHANGED <<pc, mark, conv, buf, marks, modified, lock, fg, edits>>

EdNext ==
    \/ FgSetTextDelete
    \/ FgSetTextInsert
    \/ FgInsert
    \/ BgAcquire
    \/ BgReadModified
    \/ BgResetModified
    \/ BgReturn
    \/ BgGetText
    \/ BgParse
    \/ BgTagNames
    \/ BgTagRanges
    \/ BgDiff
    \/ BgTagRemove
    \/ BgTagAdd
    \/ BgSleep

EdSpec == EdInit /\ [][EdNext]_vars

(***************************************************************************)
(* The editor with a user who also selects text.  The surface is a tk.Text *)
(* (line 626): its "select all" key makes Tk put its tag sel on every      *)
(* character, the newline at the end included (tag_add("sel", 1.0, END)).  *)
(* A selection is no edit: the modified flag stays.                        *)
(***************************************************************************)
FgSelect ==
    /\ fg.pc = "idle"
    /\ marks' = [marks EXCEPT !["sel"] = tag_add(Widget(buf), @, <<1, 0>>, END)]
    /\ UNCHANGED <<parsevars, conv, buf, modified, lock, fg, bg, edits>>

SelNext == EdNext \/ FgSelect

SelSpec == EdInit /\ [][SelNext]_vars

(***************************************************************************)
(* PositionConverter on its own: an object is constructed for a text       *)
(* (lines 376-386) and convert (lines 388-398) is called with an offset of *)
(* that text.  The texts are those of letters and newlines of length at    *)
(* most MaxText, and ab, newline, cd.                                      *)
(***************************************************************************)
T_abcd == <<"a", "b", "\n", "c", "d">>

ConvTexts == UNION {[1..n -> {"a", "\n"}] : n \in 0..MaxText} \cup {T_abcd}

ConvInit ==
    /\ parser = ParserBase(<<>>, WHITESPACES)
    /\ pc = "done"
    /\ mark = 0
    /\ buf = <<>>
    /\ marks = NoMarks
    /\ modified = FALSE
    /\ lock = "free"
    /\ fg = FgIdle
    /\ bg = BgStart
    /\ edits = 0
    /\ \E text \in ConvTexts : conv = [ConvIdle EXCEPT !.pc = "new", !.text = text]

\* PositionConverter(text)
ConvConstruct ==
    /\ conv.pc = "new"
    /\ conv' = [conv EXCEPT !.pc = "ready", !.n_sizes = PositionConverter(conv.text)]
    /\ UNCHANGED <<parsevars, edvars>>

\* pos_converter.convert(index)
ConvConvert ==
    /\ conv.pc = "ready"
    /\ \E index \in 0..Len(conv.text) :
          conv' = [conv EXCEPT !.pc = "converted", !.index = index,
                               !.position = convert(conv.n_sizes, index)]
    /\ UNCHANGED <<parsevars, edvars>>

ConvNext == ConvConstruct \/ ConvConvert

ConvSpec == ConvInit /\ [][ConvNext]_vars

(***************************************************************************)
(* What the claims speak of.                                               *)
(***************************************************************************)
LogOf(w) == {i \in 1..Len(parser.log) : parser.log[i].w = w}

Entry(i) == parser.log[i]

\* the spans res holds beyond those of res0
Emitted(res0, res) == SubSeq(res, Len(res0) + 1, Len(res))

HasType(res, type) == \E k \in 1..Len(res) : res[k].type = type

InText(e) == 0 <= e.l /\ e.l <= e.r /\ e.r <= Len(parser.text)

\* the wrapper calls of kind w that were entered with the cursor at pos0 and
\* whose rule ended with the cursor at pos1
Calls(w, pos0, pos1) ==
    {i \in LogOf(w) : Entry(i).pos0 = pos0 /\ Entry(i).pos1 = pos1}

\* The statements in the order they run: only the way back to the loop test
\* goes up, and that must be paid for by the cursor.
Rank ==
    CASE pc = "parse" -> 9
      [] pc = "doctype" -> 8
      [] pc = "ws" -> 7
      [] pc = "text" -> 6
      [] pc = "blocks" -> 5
      [] pc = "comment" -> 4
      [] pc = "tag_block" -> 3
      [] pc = "blocks_ws" -> 2
      [] pc = "blocks_text" -> 1
      [] OTHER -> 0

\* what is left of the text when the loop was last tested, then the statement
Variant == (Len(parser.text) - mark) * 10 + Rank

\* C1: a full-buffer parse of any finite text terminates.  No iteration of
\* the comment scan, the attribute list or the script/style loops goes round
\* again without advancing the cursor, and every statement of _parse and of
\* the tag-block loop decreases a natural number: the loop test is reached
\* again only with the cursor further on.
C1_ParseTerminates ==
    [][~parser'.stalled /\ pc' # "stalled" /\ Variant >= 0 /\ Variant' >= 0
       /\ Variant' < Variant]_vars

\* a parse that ran the comment scan, the attribute loop and a raw-content
\* loop to their ends
C1_Witness ==
    /\ pc = "done"
    /\ parser.text = T_script_lt
    /\ mark = Len(parser.text)
    /\ HasType(parser.result, "script")

\* C2: no ParserError leaves the document rule; every failure is absorbed by
\* a wrapper and the parse completes with the span list.
C2_NoErrorEscapes ==
    /\ pc # "raised"
    /\ ~parser.exc

\* a completed parse during which a wrapper absorbed a failure
C2_Witness ==
    /\ pc = "done"
    /\ \E i \in LogOf("handler") : Entry(i).exc1
    /\ \E i \in LogOf("restorer") : Entry(i).exc1

\* C3: the speculative wrapper.  On failure the cursor and the span list are
\* those at entry, False is returned and nothing is raised; on success True
\* is returned and the cursor and the spans of the wrapped rule are kept.
C3_Speculative ==
    \A i \in LogOf("restorer") :
        LET e == Entry(i)
        IN  /\ ~e.exc2
            /\ e.exc1 => e.pos2 = e.pos0 /\ e.res2 = e.res0 /\ e.flag2 = FALSE
            /\ ~e.exc1 => e.pos2 = e.pos1 /\ e.res2 = e.res1 /\ e.flag2 = TRUE

\* a failed attempt that had emitted an error span and moved the cursor, and
\* a successful one that emitted spans and moved the cursor
C3_Witness ==
    /\ \E i \in LogOf("restorer") :
          /\ Entry(i).exc1
          /\ Entry(i).pos1 > Entry(i).pos0
          /\ HasType(Emitted(Entry(i).res0, Entry(i).res1), "error")
    /\ \E i \in LogOf("restorer") :
          /\ ~Entry(i).exc1
          /\ Entry(i).pos1 > Entry(i).pos0
          /\ Len(Entry(i).res1) > Len(Entry(i).res0)

\* C4: the tolerant wrapper.  On failure exactly one error span from the
\* cursor at entry to the cursor at the failure is appended, nothing is
\* raised and the cursor stays at the failure; on success nothing is added.
C4_Tolerant ==
    \A i \in LogOf("handler") :
        LET e == Entry(i)
        IN  /\ ~e.exc2
            /\ e.pos2 = e.pos1
            /\ e.exc1 => e.res2 = Append(e.res1, ParserElement(e.pos0, e.pos1, "error"))
            /\ ~e.exc1 => e.res2 = e.res1

\* a failure after the cursor had moved, and a success
C4_Witness ==
    /\ \E i \in LogOf("handler") : Entry(i).exc1 /\ Entry(i).pos1 > Entry(i).pos0
    /\ \E i \in LogOf("handler") : ~Entry(i).exc1 /\ Entry(i).pos1 > Entry(i).pos0

\* C5: every span of the output list lies in the text, 0 <= l <= r <= len,
\* and the cursor never exceeds len: in every state of the parse and at
\* every entry to and exit from a wrapper.
C5_SpansInText ==
    /\ parser.pos <= Len(parser.text)
    /\ \A k \in 1..Len(parser.result) : InText(parser.result[k])
    /\ \A i \in 1..Len(parser.log) :
          LET e == Entry(i)
          IN  /\ e.pos0 <= Len(parser.text)
              /\ e.pos1 <= Len(parser.text)
              /\ e.pos2 <= Len(parser.text)
              /\ \A k \in 1..Len(e.res1) : InText(e.res1[k])
              /\ \A k \in 1..Len(e.res2) : InText(e.res2[k])

\* a parse that ended with the cursor at the end of the text, with a span
\* ending there and an error span that covers characters
C5_Witness ==
    /\ pc = "done"
    /\ parser.pos = Len(parser.text)
    /\ \E k \in 1..Len(parser.result) :
          parser.result[k].r = Len(parser.text) /\ parser.result[k].l < parser.result[k].r
    /\ \E k \in 1..Len(parser.result) :
          parser.result[k].type = "error" /\ parser.result[k].l < parser.result[k].r

\* C6: the cursor and the span list are restored together: whenever the
\* cursor is moved back to an earlier offset, the span list is the one it was
\* when the cursor was at that offset; so after the raw-content rule rewinds
\* the cursor to the < of the close tag, no span of the lookahead remains.
C6_RestoredTogether ==
    \A i \in LogOf("restorer") \cup LogOf("rewind") :
        Entry(i).pos2 < Entry(i).pos1 => Entry(i).res2 = Entry(i).res0

\* what tag_ranges returns for every tag of the surface
SurfaceRanges == [n \in TagNameSet |-> tag_ranges(Widget(buf), marks[n])]

\* the step with which _update_colors returns: the diff of the tick is applied
Applies == bg.pc \in {"diff", "remove", "add"} /\ bg'.pc = "sleep"

\* the foreground made no call of the surface since the tick's get_text
Unedited == bg.seen = <<edits, fg>>

\* every category has on the surface the ranges of the tick's new mapping
SurfaceIsNew == \A c \in Categories : SurfaceRanges[c] = bg.tags_new[c]

\* what _update_colors would find to do were it run again with the same
\* parse result and text
SecondDiff ==
    Pending(tags_to_add(SurfaceRanges, bg.tags_new))
        \cup Pending(tags_to_remove(SurfaceRanges, bg.tags_new))

\* C7, as stated: when a tick has applied its diff, the ranges on the surface
\* are, for every category, exactly those of the new mapping of the tick.
C7_AppliedIsNew ==
    [][Applies => SurfaceIsNew']_vars

\* C7, amended: when a tick has applied its diff and the foreground has not
\* edited the surface between the tick's snapshot and the end of the
\* application, the ranges on the surface are, for every category, exactly
\* those of the new mapping of the tick.
C7_AppliedIsNewUnedited ==
    [][Applies /\ Unedited' => SurfaceIsNew']_vars

\* a tick that has removed ranges and added ranges, undisturbed
C7_Witness ==
    /\ bg.pc = "sleep"
    /\ bg.result
    /\ Unedited
    /\ SurfaceIsNew
    /\ \E c \in Categories : bg.tags[c] \ bg.tags_new[c] # {}
    /\ \E c \in Categories : bg.tags_new[c] \ bg.tags[c] # {}

\* C8: the test and the reset of the modified flag are atomic with respect to
\* the foreground: the flag of an edit made between the read and the reset is
\* never cleared by a tick that returns False.
C8_NoLostEdit ==
    [][(bg.pc = "reset" /\ bg'.pc = "return" /\ modified) => bg.result]_vars

\* the foreground has stopped editing and no tick will find the flag set
Quiescent ==
    /\ edits = 0
    /\ fg.pc = "idle"
    /\ ~modified
    /\ bg.pc \in {"tick", "sleep"}

\* the mapping of a full parse of the text now on the surface
FinalMapping ==
    tags_new(Widget(buf), HTMLParser(Widget(buf)).result, PositionConverter(Widget(buf)))

Converged == \A c \in Categories : SurfaceRanges[c] = FinalMapping[c]

\* C9: convergence.  Once the foreground has stopped editing and the
\* background loop has nothing left to do, the ranges on the surface are those
\* of a full parse of the final text, whatever the interleaving was.
C9_Converges == Quiescent => Converged

\* C10, as stated: _update_colors run again with the same parse result, no
\* edit in between, finds nothing to add and nothing to remove.
C10_SecondDiffEmpty ==
    [][Applies => (SecondDiff = {})']_vars

\* C10, amended: _update_colors run again with the same parse result finds
\* nothing to add and nothing to remove, if the foreground has not edited the
\* surface since the snapshot the parse result was made of.
C10_SecondDiffEmptyUnedited ==
    [][Applies /\ Unedited' => (SecondDiff = {})']_vars

\* a first run that had ranges to add, after which a second has none
C10_Witness ==
    /\ bg.pc = "sleep"
    /\ bg.result
    /\ Unedited
    /\ Pending(tags_to_add(bg.tags, bg.tags_new)) # {}
    /\ SecondDiff = {}

\* the documents <script>BODY</script> and <style>BODY</style> that are parsed,
\* with the category and the offsets of BODY
RawDocuments ==
    {[text |-> T_script, type |-> "script", l |-> 8, r |-> 9],
     [text |-> T_script_lt, type |-> "script", l |-> 8, r |-> 11],
     [text |-> T_style, type |-> "style", l |-> 7, r |-> 8]}

Inside(e, l, r) == l <= e.l /\ e.r <= r

\* C11: raw content isolation.  The parse of <script>BODY</script> (and of
\* <style>BODY</style>), BODY not empty and without a close tag of the
\* element, emits exactly one script (style) span, which covers exactly BODY;
\* no tag_name, tag_param_name or error span lies inside BODY; and the close
\* tag is matched without an error span.
C11_RawContentIsolated ==
    \A d \in RawDocuments :
        (pc = "done" /\ parser.text = d.text) =>
            LET res == parser.result
            IN  /\ Cardinality({k \in 1..Len(res) : res[k].type = d.type}) = 1
                /\ \E k \in 1..Len(res) : res[k] = ParserElement(d.l, d.r, d.type)
                /\ \A k \in 1..Len(res) :
                      res[k].type \in {"tag_name", "tag_param_name", "error"}
                          => ~Inside(res[k], d.l, d.r)
                /\ ~HasType(res, "error")

\* the well-formed comments of the documents that are parsed, each at a
\* position where a construct may start, with the offsets they cover
CommentDocuments ==
    {[text |-> T_comment, l |-> 0, r |-> 14],
     [text |-> T_comments, l |-> 0, r |-> 8],
     [text |-> T_comments, l |-> 8, r |-> 16]}

\* C12: comment precedence.  Every well-formed comment that begins where a
\* construct may start (at the start of the document, after text, after a
\* tag or after a comment) yields exactly one comment span, which covers it,
\* and no tag_name span and no error span that covers characters lies
\* inside it.
C12_CommentPrecedence ==
    \A d \in CommentDocuments :
        (pc = "done" /\ parser.text = d.text) =>
            LET res == parser.result
            IN  /\ Cardinality({k \in 1..Len(res) :
                       res[k].type = "comment" /\ Inside(res[k], d.l, d.r)}) = 1
                /\ \E k \in 1..Len(res) : res[k] = ParserElement(d.l, d.r, "comment")
                /\ \A k \in 1..Len(res) :
                      Inside(res[k], d.l, d.r) =>
                          /\ res[k].type # "tag_name"
                          /\ res[k].type = "error" => res[k].l = res[k].r

\* the spans of <div id="x"><p>hi</p></div>
DivSpans ==
    {ParserElement(1, 4, "tag_name"), ParserElement(5, 7, "tag_param_name"),
     ParserElement(8, 11, "tag_param_value"), ParserElement(13, 14, "tag_name"),
     ParserElement(15, 17, "text"), ParserElement(19, 20, "tag_name"),
     ParserElement(23, 26, "tag_name")}

\* C13: well-formed round trip.  The parse of <div id="x"><p>hi</p></div>
\* yields two tag_name spans for div and two for p (open and close tag, no
\* duplicate left by the failed self-closing attempts), one tag_param_name
\* span for id, one tag_param_value span for "x" with its quotes, one text
\* span for hi, and nothing else: no error span.
C13_RoundTrip ==
    (pc = "done" /\ parser.text = T_div) =>
        /\ Len(parser.result) = Cardinality(DivSpans)
        /\ {parser.result[k] : k \in 1..Len(parser.result)} = DivSpans

\* the parse of the document has completed, and on the way a self-closing
\* attempt failed after it had emitted the tag_name span of an open tag
C13_Witness ==
    /\ pc = "done"
    /\ parser.text = T_div
    /\ \E i \in LogOf("restorer") :
          /\ Entry(i).exc1
          /\ HasType(Emitted(Entry(i).res0, Entry(i).res1), "tag_name")
          /\ HasType(Emitted(Entry(i).res0, Entry(i).res1), "tag_param_value")

NewlinesBefore(text, offset) == {i \in 0..(offset - 1) : text[i + 1] = "\n"}

\* the offset just after the last newline before offset, 0 if there is none
LineStartBefore(text, offset) ==
    IF NewlinesBefore(text, offset) = {} THEN 0
    ELSE 1 + CHOOSE i \in NewlinesBefore(text, offset) :
                 \A j \in NewlinesBefore(text, offset) : j <= i

\* C15: position translation.  For every text and every offset from 0 to the
\* length of the text, convert(offset) gives the line 1 + the number of
\* newlines in text[0:offset], and the column offset - the offset just after
\* the last newline before offset (0 if there is none); for ab, newline, cd
\* offset 0 is line 1 column 0 and offset 3 is line 2 column 0.
C15_PositionTranslation ==
    /\ conv.pc = "converted" =>
          conv.position =
              <<1 + Cardinality(NewlinesBefore(conv.text, conv.index)),
                conv.index - LineStartBefore(conv.text, conv.index)>>
    /\ (conv.pc = "converted" /\ conv.text = T_abcd /\ conv.index = 0) =>
          conv.position = <<1, 0>>
    /\ (conv.pc = "converted" /\ conv.text = T_abcd /\ conv.index = 3) =>
          conv.position = <<2, 0>>

\* convert was called with the offset of a character that follows two
\* newlines in a row and a letter
C15_Witness ==
    /\ conv.pc = "converted"
    /\ conv.text = <<"a", "\n", "\n", "a", "a">>
    /\ conv.index = 4
    /\ conv.position = <<3, 1>>

\* C16: self-closing tag.  The parse of <img src="a.png"/> succeeds through
\* the speculative self-closing rule and yields one tag_name span for img,
\* one tag_param_name span, one tag_param_value span and no error span.  The
\* tolerant open-tag rule and the close-tag rules are not run: the tolerant
\* wrapper is entered by the attribute list of the self-closing rule and by
\* the tag block only, the speculative wrapper by the doctype, the comment
\* and the self-closing rule only.
C16_SelfClosing ==
    (pc = "done" /\ parser.text = T_img) =>
        /\ parser.result =
              <<ParserElement(1, 4, "tag_name"), ParserElement(5, 8, "tag_param_name"),
                ParserElement(9, 16, "tag_param_value")>>
        /\ \E i \in Calls("restorer", 0, 18) :
              /\ ~Entry(i).exc1
              /\ Entry(i).flag2
              /\ Entry(i).res2 = parser.result
        /\ Cardinality(LogOf("handler")) = 2
        /\ Cardinality(Calls("handler", 5, 16)) = 1
        /\ Cardinality(Calls("handler", 0, 18)) = 1
        /\ Cardinality(LogOf("restorer")) = 3
        /\ Cardinality(LogOf("updater") \cap {i \in 1..Len(parser.log) :
               Entry(i).type = "tag_name"}) = 1

\* the parse of the document has completed and the self-closing rule had
\* consumed it to its end
C16_Witness ==
    /\ pc = "done"
    /\ parser.text = T_img
    /\ parser.pos = 18
    /\ \E i \in Calls("restorer", 0, 18) : Entry(i).flag2

\* the background thread is about to snapshot the text, to parse it, or is
\* inside _update_colors
Working ==
    bg.pc \in {"get_text", "parse", "tag_names", "tag_ranges", "diff", "remove", "add"}

\* C17: the background loop never holds the lock of the modified flag while
\* it snapshots the text, parses or applies highlight operations: in every
\* state in which it is in one of these steps the lock is free.
C17_LockFreeWhileWorking == Working => lock = "free"

\* the background thread has taken and released the lock and is applying
\* tag_add calls while the foreground is in the middle of set_text
C17_Witness ==
    /\ bg.pc = "add"
    /\ bg.result
    /\ lock = "free"
    /\ fg.pc # "idle"

\* C18: the span-recording wrapper.  When the wrapped rule succeeds and the
\* cursor advanced, exactly one span (cursor at entry, cursor at exit,
\* category) is appended after the spans the rule itself emitted; when it
\* succeeds without advancing, no span is appended, so that no span other
\* than an error span is ever empty; when the rule fails, the failure
\* propagates and no span is appended for the attempt.
C18_SpanRecording ==
    /\ \A i \in LogOf("updater") :
          LET e == Entry(i)
          IN  /\ e.exc2 = e.exc1
              /\ e.pos2 = e.pos1
              /\ (~e.exc1 /\ e.pos0 < e.pos1) =>
                    e.res2 = Append(e.res1, ParserElement(e.pos0, e.pos1, e.type))
              /\ (~e.exc1 /\ ~(e.pos0 < e.pos1)) => e.res2 = e.res1
              /\ e.exc1 => e.res2 = e.res1
    /\ \A k \in 1..Len(parser.result) :
          parser.result[k].type # "error" => parser.result[k].l < parser.result[k].r

\* a parse in which a wrapped rule succeeded with spans of its own and the
\* cursor advanced, another succeeded without advancing, and another failed
C18_Witness ==
    /\ \E i \in LogOf("updater") :
          /\ ~Entry(i).exc1
          /\ Entry(i).pos0 < Entry(i).pos1
          /\ Len(Entry(i).res1) > Len(Entry(i).res0)
    /\ \E i \in LogOf("updater") : ~Entry(i).exc1 /\ Entry(i).pos0 = Entry(i).pos1
    /\ \E i \in LogOf("updater") : Entry(i).exc1

\* the calls of the doctype rule that failed after its keyword had matched
MalformedDoctype ==
    {i \in LogOf("updater") :
        /\ Entry(i).type = "doctype"
        /\ Entry(i).exc1
        /\ Entry(i).pos1 >= Entry(i).pos0 + Len(<<"<", "!", "d", "o", "c", "t", "y", "p", "e">>)}

\* C19: the doctype is handled tolerantly.  When the document starts with a
\* <!doctype (in any case) that is malformed, the failure is absorbed and
\* an error span covering the range the doctype rule attempted is recorded.
C19_DoctypeTolerant ==
    /\ pc # "raised"
    /\ pc = "done" =>
          \A i \in MalformedDoctype :
              \E k \in 1..Len(parser.result) :
                  /\ parser.result[k].type = "error"
                  /\ parser.result[k].l <= Entry(i).pos0
                  /\ parser.result[k].r >= Entry(i).pos1

\* C19 as amended: the doctype is handled speculatively.  When the document
\* starts with a <!doctype (in any case) that is malformed, the failure is
\* absorbed by the speculative wrapper: nothing is raised, False is returned,
\* the cursor and the span list are those at entry, so that the doctype rule
\* records neither a doctype span nor an error span and the rules that
\* follow start at the < of the doctype.
C19_DoctypeSpeculative ==
    /\ pc # "raised"
    /\ \A i \in MalformedDoctype :
          /\ i + 1 \in LogOf("restorer")
          /\ ~Entry(i + 1).exc2
          /\ Entry(i + 1).flag2 = FALSE
          /\ Entry(i + 1).pos0 = Entry(i).pos0
          /\ Entry(i + 1).pos2 = Entry(i).pos0
          /\ Entry(i + 1).res2 = Entry(i).res0
          /\ ~HasType(parser.result, "doctype")

\* the parse of <!doctypex> has completed; the doctype rule had failed at
\* the x
C19_Witness ==
    /\ pc = "done"
    /\ parser.text = T_doctype_bad
    /\ \E i \in MalformedDoctype : Entry(i).pos0 = 0 /\ Entry(i).pos1 = 9

\* the documents parsed that are built of well-formed constructs only: a
\* doctype, comments, open, close and self-closing tags with well-formed
\* attributes, whitespace and text without <
WellFormedDocuments == {T_div, T_img, T_oops, T_doctype, T_comment, T_comments}

\* C20: error spans arise only from malformed input.  The parse result of a
\* document built of well-formed constructs only holds no error span, not
\* even one of length zero.
C20_NoErrorInWellFormed ==
    (pc = "done" /\ parser.text \in WellFormedDocuments) =>
        ~HasType(parser.result, "error")

\* the categories of spans, and the tags of the surface that are none
SpanCategory ==
    {"doctype", "tag_name", "tag_param_name", "tag_param_value", "comment", "text",
     "script", "style", "error"}

OtherTags == TagNameSet \ SpanCategory

\* what a dictionary of ranges holds for a tag, nothing if it is no key
RangesOf(d, n) == IF n \in DOMAIN d THEN d[n] ELSE {}

\* C21: the diff emits add and remove operations for the span categories
\* only.  The ranges the surface holds under any other tag, such as the
\* user's selection, are never part of to_remove or to_add, and no step of
\* a reparse tick changes them.
C21_OtherTagsUntouched ==
    [][bg' # bg =>
          \A n \in OtherTags :
              /\ RangesOf(bg'.tags_to_remove, n) = {}
              /\ RangesOf(bg'.tags_to_add, n) = {}
              /\ marks'[n] = marks[n]]_vars

=============================================================================
